---- MODULE Spec2Model ----
(***************************************************************************)
(* Model of the real-time message relay of server.ts: the WebSocket        *)
(* handlers (connection, message, close), the clients registry, the        *)
(* messages table and the GET /api/messages/:otherId history query.        *)
(*                                                                         *)
(* Node runs every handler to completion on one thread, so each handler    *)
(* is one atomic action; the interleavings are those of the events.        *)
(***************************************************************************)
EXTENDS Integers, Sequences, FiniteSets, TLC

\* ---- bounds -------------------------------------------------------------
NumUsers == 2
MaxConns == 3
\* rows appended in a run of the relay with all its connections
MaxRaceMsgs == 1
\* rows appended in a run of two connections, or of the store
MaxMsgs == 2
MaxClock == 1

\* ---- values -------------------------------------------------------------
\* rows of table users: ids are assigned by AUTOINCREMENT starting at 1
Users == 1..NumUsers
\* an id that no row of users carries
UnknownUser == NumUsers + 1
Receivers == Users \cup {UnknownUser}
\* the sockets the WebSocketServer accepts during the run
Conns == 1..MaxConns
\* let userId = null
NoUser == 0
\* clients.get(k) === undefined
NoConn == 0
\* message.content of a send frame (the empty string included)
Contents == {"hi", ""}
\* a token is the identity it was signed for and whether its signature
\* verifies under JWT_SECRET
Tokens == [id : Users, sig : {"good", "bad"}]
\* no GET /api/messages response produced yet
NoResponse == [status |-> 0]

VARIABLES
    up,             \* the server process is running
    readyState,     \* ws.readyState of each socket ("NEW" = not yet accepted)
    userId,         \* the closure variable userId of each connection
    clients,        \* the Map clients, as its set of <<key, value>> entries
    messages,       \* table messages, rows in the order they were inserted
    seq,            \* sqlite_sequence entry of table messages
    now,            \* the wall clock, in seconds
    inbox,          \* frames written to each socket by ws.send while OPEN
    response,       \* the last response of GET /api/messages/:otherId
    ignored         \* history: the connections that had a frame ignored

vars == <<up, readyState, userId, clients, messages, seq, now, inbox, response,
          ignored>>

\* ---- Map ----------------------------------------------------------------
MapGet(m, k) ==
    IF \E e \in m : e[1] = k
    THEN (CHOOSE e \in m : e[1] = k)[2]
    ELSE NoConn

MapSetKeepOld(m, k, v) == m \cup {<<k, v>>}

MapSetFirstWins(m, k, v) ==
    IF \E e \in m : e[1] = k THEN m ELSE m \cup {<<k, v>>}

MapSet(m, k, v) == {e \in m : e[1] # k} \cup {<<k, v>>}

MapDelete(m, k) == {e \in m : e[1] # k}

\* ---- credential check ---------------------------------------------------
\* jwt.verify(token, JWT_SECRET): returns the payload or throws
JwtVerifies(tok) == tok.sig = "good"

DecodedId(tok) == tok.id

\* ---- message store ------------------------------------------------------
\* CURRENT_TIMESTAMP: 'YYYY-MM-DD HH:MM:SS' of the clock; the fixed-width text
\* compares as the second count does
CurrentTimestamp(t) == [fmt |-> "sql", sec |-> t]

\* new Date().toISOString()
ToISOString(t) == [fmt |-> "iso", sec |-> t]

NextRowIdReused(s) == 1

\* INTEGER PRIMARY KEY AUTOINCREMENT: one more than the largest id ever used
NextRowId(s) == s + 1

DbInsertSenderFromFrame(table, s, sender, receiver, content, t) ==
    Append(table, [id |-> NextRowId(s), sender_id |-> receiver,
                   receiver_id |-> receiver, content |-> content,
                   timestamp |-> CurrentTimestamp(t)])

DbInsertTwice(table, s, sender, receiver, content, t) ==
    LET row == [id |-> NextRowId(s), sender_id |-> sender,
                receiver_id |-> receiver, content |-> content,
                timestamp |-> CurrentTimestamp(t)]
    IN  Append(Append(table, row), row)

\* INSERT INTO messages (sender_id, receiver_id, content) VALUES (?, ?, ?)
DbInsert(table, s, sender, receiver, content, t) ==
    Append(table, [id |-> NextRowId(s), sender_id |-> sender,
                   receiver_id |-> receiver, content |-> content,
                   timestamp |-> CurrentTimestamp(t)])

\* FOREIGN KEY(receiver_id) REFERENCES users(id)
ForeignKeyOk(receiver) == receiver \in Users

SavedMsgSwapped(id, sender, receiver, content, t) ==
    [id |-> id, sender_id |-> receiver, receiver_id |-> sender,
     content |-> content, timestamp |-> ToISOString(t)]

\* const savedMsg = { id: info.lastInsertRowid, sender_id: userId, ... }
SavedMsg(id, sender, receiver, content, t) ==
    [id |-> id, sender_id |-> sender, receiver_id |-> receiver,
     content |-> content, timestamp |-> ToISOString(t)]

Frame(msg) == [type |-> "message", message |-> msg]

\* WHERE (sender_id = ? AND receiver_id = ?) OR (sender_id = ? AND receiver_id = ?)
\* bound to (a, b, b, a)
Matches(row, a, b) ==
    \/ row.sender_id = a /\ row.receiver_id = b
    \/ row.sender_id = b /\ row.receiver_id = a

\* the sorter puts a row behind every row already sorted whose key is not larger
InsertRow(sorted, row) ==
    LET idx == Cardinality({i \in 1..Len(sorted) :
                   sorted[i].timestamp.sec <= row.timestamp.sec})
    IN  SubSeq(sorted, 1, idx) \o <<row>> \o SubSeq(sorted, idx + 1, Len(sorted))

Unsorted(rows) == rows

RECURSIVE OrderByTimestamp(_)
\* ORDER BY timestamp ASC over the rows scanned in rowid order
OrderByTimestamp(rows) ==
    IF rows = <<>> THEN <<>>
    ELSE InsertRow(OrderByTimestamp(SubSeq(rows, 1, Len(rows) - 1)), rows[Len(rows)])

\* the SELECT of GET /api/messages/:otherId for token identity a and otherId b
History(table, a, b) ==
    OrderByTimestamp(SelectSeq(table, LAMBDA row : Matches(row, a, b)))

\* ---- ws.send ------------------------------------------------------------
WsSendFirst(box, c, frame) ==
    IF readyState[c] = "OPEN"
    THEN [box EXCEPT ![c] = <<frame>> \o @]
    ELSE box

\* ws.send(data): written when the socket is OPEN, discarded otherwise
WsSend(box, c, frame) ==
    IF readyState[c] = "OPEN"
    THEN [box EXCEPT ![c] = Append(@, frame)]
    ELSE box

\* ---- initial state ------------------------------------------------------
Init ==
    /\ up = TRUE
    /\ readyState = [c \in Conns |-> "NEW"]
    /\ userId = [c \in Conns |-> NoUser]
    /\ clients = {}
    /\ messages = <<>>
    /\ seq = 0
    /\ now = 0
    /\ inbox = [c \in Conns |-> <<>>]
    /\ response = NoResponse
    /\ ignored = {}

\* ---- handlers -----------------------------------------------------------
\* wss.on('connection'): a socket is accepted, its userId is null
OnConnection(c) ==
    /\ up
    /\ readyState[c] = "NEW"
    /\ \A d \in Conns : d < c => readyState[d] # "NEW"
    /\ readyState' = [readyState EXCEPT ![c] = "OPEN"]
    /\ userId' = [userId EXCEPT ![c] = NoUser]
    /\ UNCHANGED <<up, clients, messages, seq, now, inbox, response, ignored>>

ReceivingAfterClose(c) == readyState[c] # "NEW"

\* a frame can still be delivered to the handler while the socket is CLOSING
Receiving(c) == readyState[c] \in {"OPEN", "CLOSING"}

\* ws.on('message'), branch message.type === 'auth'
OnAuth(c, tok) ==
    /\ up
    /\ Receiving(c)
    /\ IF JwtVerifies(tok)
       THEN /\ userId' = [userId EXCEPT ![c] = DecodedId(tok)]
            /\ clients' = IF DecodedId(tok) # NoUser
                          THEN MapSet(clients, DecodedId(tok), c)
                          ELSE clients
            /\ UNCHANGED readyState
       ELSE /\ readyState' = [readyState EXCEPT ![c] = "CLOSING"]
            /\ UNCHANGED <<userId, clients>>
    /\ UNCHANGED <<up, messages, seq, now, inbox, response, ignored>>

DispatchToSessions(box, c, receiver, msg) ==
    LET open == {d \in Conns : userId[d] = receiver /\ readyState[d] = "OPEN" /\ d # c}
    IN  [d \in Conns |-> IF d \in open \/ (d = c /\ readyState[c] = "OPEN")
                         THEN Append(box[d], Frame(msg))
                         ELSE box[d]]

DispatchEchoIfRegistered(box, c, receiver, msg) ==
    LET receiverWs == MapGet(clients, receiver)
        box1 == IF receiverWs # NoConn /\ readyState[receiverWs] = "OPEN"
                THEN WsSend(box, receiverWs, Frame(msg))
                ELSE box
    IN  IF MapGet(clients, msg.sender_id) = c THEN WsSend(box1, c, Frame(msg)) ELSE box1

\* the two sends of the branch: to the receiver if online, then to the sender
Dispatch(box, c, receiver, msg) ==
    LET receiverWs == MapGet(clients, receiver)
        box1 == IF receiverWs # NoConn /\ readyState[receiverWs] = "OPEN"
                THEN WsSend(box, receiverWs, Frame(msg))
                ELSE box
    IN  WsSend(box1, c, Frame(msg))

AuthenticatedAlways(c) == TRUE

\* the test && userId of the send branch
Authenticated(c) == userId[c] # NoUser

\* ws.on('message'), branch message.type === 'message' && userId
OnSend(c, receiver, content) ==
    /\ up
    /\ Receiving(c)
    /\ Authenticated(c)
    /\ IF ForeignKeyOk(receiver)
       THEN /\ messages' = DbInsert(messages, seq, userId[c], receiver, content, now)
            /\ seq' = NextRowId(seq)
            /\ inbox' = Dispatch(inbox, c, receiver,
                           SavedMsg(NextRowId(seq), userId[c], receiver, content, now))
            /\ UNCHANGED up
            /\ UNCHANGED <<readyState, userId, clients>>
       ELSE \* the INSERT throws out of the handler: the uncaught exception ends
            \* the process, and with it every socket and the registry
            /\ up' = FALSE
            /\ readyState' = [d \in Conns |-> "CLOSED"]
            /\ userId' = [d \in Conns |-> NoUser]
            /\ clients' = {}
            /\ UNCHANGED <<messages, seq, inbox>>
    /\ UNCHANGED <<now, response, ignored>>

\* a send handled while the table holds fewer than limit rows
SendWithin(limit, c, receiver, content) ==
    /\ Len(messages) < limit
    /\ OnSend(c, receiver, content)

\* message.type of the frames that are no auth frame
OtherTypes == {"message", "other"}

\* ws.on('message'), neither branch taken: a frame of an unknown type, or a
\* send frame while userId is null
OnIgnored(c, type) ==
    /\ up
    /\ Receiving(c)
    /\ type = "message" => ~Authenticated(c)
    /\ ignored' = ignored \cup {c}
    /\ UNCHANGED <<up, readyState, userId, clients, messages, seq, now, inbox, response>>

\* ws.on('close')
OnClose(c) ==
    /\ up
    /\ Receiving(c)
    /\ readyState' = [readyState EXCEPT ![c] = "CLOSED"]
    /\ clients' = IF userId[c] # NoUser THEN MapDelete(clients, userId[c]) ELSE clients
    /\ UNCHANGED <<up, userId, messages, seq, now, inbox, response, ignored>>

GetMessagesConsuming(a, b) ==
    /\ up
    /\ response' = [status |-> 200, a |-> a, b |-> b,
                    rows |-> History(messages, a, b), at |-> Len(messages)]
    /\ messages' = SelectSeq(messages, LAMBDA row : ~Matches(row, a, b))
    /\ UNCHANGED <<up, readyState, userId, clients, seq, now, inbox, ignored>>

\* app.get('/api/messages/:otherId') with a valid token of user a
GetMessages(a, b) ==
    /\ up
    /\ response' = [status |-> 200, a |-> a, b |-> b,
                    rows |-> History(messages, a, b), at |-> Len(messages)]
    /\ UNCHANGED <<up, readyState, userId, clients, messages, seq, now, inbox,
                   ignored>>

\* the wall clock is set to another second (forwards, or backwards by an adjustment)
ClockChange(t) ==
    /\ up
    /\ t # now
    /\ now' = t
    /\ UNCHANGED <<up, readyState, userId, clients, messages, seq, inbox, response, ignored>>

\* the relay: every connection authenticates, sends and closes in any interleaving
Next ==
    \/ \E c \in Conns : OnConnection(c)
    \/ \E c \in Conns, tok \in Tokens : OnAuth(c, tok)
    \/ \E c \in Conns, r \in Receivers, content \in Contents :
          SendWithin(MaxRaceMsgs, c, r, content)
    \/ \E c \in Conns : OnClose(c)

Spec == Init /\ [][Next]_vars

\* two connections and a longer run of sends
PairConns == {1, 2}

NextPair ==
    \/ \E c \in PairConns : OnConnection(c)
    \/ \E c \in PairConns, tok \in Tokens : OnAuth(c, tok)
    \/ \E c \in PairConns, r \in Receivers, content \in Contents :
          SendWithin(MaxMsgs, c, r, content)
    \/ \E c \in PairConns : OnClose(c)

SpecPair == Init /\ [][NextPair]_vars

\* two connections, with the frames that the handler ignores
NextSession ==
    \/ \E c \in PairConns : OnConnection(c)
    \/ \E c \in PairConns, tok \in Tokens : OnAuth(c, tok)
    \/ \E c \in PairConns, r \in Receivers, content \in Contents :
          SendWithin(MaxRaceMsgs, c, r, content)
    \/ \E c \in PairConns, type \in OtherTypes : OnIgnored(c, type)
    \/ \E c \in PairConns : OnClose(c)

SpecSession == Init /\ [][NextSession]_vars

\* the store: rows appended through one connection under a moving clock, and
\* the history query
NextStore ==
    \/ OnConnection(1)
    \/ \E tok \in Tokens : OnAuth(1, tok)
    \/ \E r \in Receivers, content \in Contents :
          SendWithin(MaxMsgs, 1, r, content)
    \/ \E a \in Users, b \in Users : GetMessages(a, b)
    \/ \E t \in 0..MaxClock : ClockChange(t)

SpecStore == Init /\ [][NextStore]_vars

\* ---- properties ---------------------------------------------------------
\* a step of the INSERT: one row more in the table
Appended == Len(messages') = Len(messages) + 1

NewRow == messages'[Len(messages')]

\* the frames a step writes to socket c
NewFrames(c) == {inbox'[c][k] : k \in (Len(inbox[c]) + 1)..Len(inbox'[c])}

\* the close event of socket c, the process staying up
Closes(c) == up' /\ Receiving(c) /\ readyState'[c] = "CLOSED"

SameMessage(msg, row) ==
    /\ msg.id = row.id
    /\ msg.sender_id = row.sender_id
    /\ msg.receiver_id = row.receiver_id
    /\ msg.content = row.content

GotPush(c, row) == \E f \in NewFrames(c) : SameMessage(f.message, row)

\* c is the one live connection authenticated as u, it is open, and it has
\* authenticated as no other user
SoleLive(c, u) ==
    /\ userId[c] = u
    /\ readyState[c] = "OPEN"
    /\ \A d \in Conns \ {c} : userId[d] = u => ~Receiving(d)
    /\ \A e \in clients : e[2] = c => e[1] = u

\* C1: the close of a connection never removes a registry entry that holds
\* another connection (a stale close does not evict the newer registration).
C1_StaleCloseKeepsNewer ==
    [][\A c \in Conns : Closes(c) =>
          \A e \in clients : e[2] # c => e \in clients']_vars

\* C2: every send handled adds exactly one row, rows stay, and every frame
\* pushed carries the id of the one row that the same handler has just inserted.
C2_RecordedOnceBeforePush ==
    [][/\ Len(messages') \in {Len(messages), Len(messages) + 1}
       /\ \A i \in 1..Len(messages) : messages'[i] = messages[i]
       /\ \A c \in Conns : \A f \in NewFrames(c) :
             /\ Appended
             /\ NewRow.id = f.message.id
             /\ Cardinality({i \in 1..Len(messages') :
                               messages'[i].id = f.message.id}) = 1]_vars

\* a pushed frame whose row is in the table
C2_Witness ==
    \E c \in Conns : \E k \in 1..Len(inbox[c]) : \E i \in 1..Len(messages) :
        SameMessage(inbox[c][k].message, messages[i])

\* C3: the registry holds at most one connection per user identity.
C3_OneConnectionPerUser ==
    \A u \in Users : Cardinality({e \in clients : e[1] = u}) <= 1

\* two live connections authenticated as the same user, one of them registered
C3_Witness ==
    \E c \in Conns, d \in Conns :
        /\ c # d
        /\ Receiving(c) /\ Receiving(d)
        /\ userId[c] # NoUser /\ userId[c] = userId[d]
        /\ <<userId[c], d>> \in clients

\* C4: when the receiver's registered connection is open as a send is
\* appended, that connection is pushed the id, sender, receiver and content
\* of the persisted row.
C4_ReceiverPushMatchesRow ==
    [][Appended =>
          LET rc == MapGet(clients, NewRow.receiver_id)
          IN  (rc # NoConn /\ readyState[rc] = "OPEN") => GotPush(rc, NewRow)]_vars

\* a connection holds a frame of a message another user sent to its user
C4_Witness ==
    \E c \in Conns : \E k \in 1..Len(inbox[c]) : \E i \in 1..Len(messages) :
        /\ SameMessage(inbox[c][k].message, messages[i])
        /\ messages[i].receiver_id = userId[c]
        /\ messages[i].sender_id # userId[c]
        /\ messages[i].content # ""

\* C5: when A and B are each authenticated on an open connection and A sends
\* a non-empty message to B, both connections are pushed the message and
\* history(A,B) holds exactly one entry for it.
C5_BothReceive ==
    [][Appended /\ NewRow.content # "" /\ NewRow.sender_id # NewRow.receiver_id =>
          \A cA \in Conns, cB \in Conns :
              (SoleLive(cA, NewRow.sender_id) /\ SoleLive(cB, NewRow.receiver_id)) =>
                  /\ GotPush(cA, NewRow)
                  /\ GotPush(cB, NewRow)
                  /\ LET h == History(messages', NewRow.sender_id, NewRow.receiver_id)
                     IN  Cardinality({k \in 1..Len(h) : h[k].id = NewRow.id}) = 1]_vars

\* C6: a send to a receiver with no registered connection is appended, is
\* pushed to no connection but the submitting one, and every row of the table
\* is in the history of its sender and receiver from then on.
C6_OfflineReceiver ==
    [][/\ (Appended /\ MapGet(clients, NewRow.receiver_id) = NoConn) =>
             \A c \in Conns : NewFrames(c) # {} =>
                 /\ userId[c] = NewRow.sender_id
                 /\ Cardinality({d \in Conns : NewFrames(d) # {}}) = 1
       /\ (\E c \in Conns, r \in Users, content \in Contents :
              OnSend(c, r, content) /\ MapGet(clients, r) = NoConn) => Appended
       /\ \A i \in 1..Len(messages') :
             LET row == messages'[i]
                 h == History(messages', row.sender_id, row.receiver_id)
             IN  \E k \in 1..Len(h) : h[k] = row
       /\ \A i \in 1..Len(messages) : messages'[i] = messages[i]]_vars

\* a row sent to a user no connection is authenticated as: only its echo exists
C6_Witness ==
    \E i \in 1..Len(messages) :
        LET row == messages[i]
            h == History(messages, row.sender_id, row.receiver_id)
        IN  /\ row.sender_id # row.receiver_id
            /\ MapGet(clients, row.receiver_id) = NoConn
            /\ \A c \in Conns : userId[c] # row.receiver_id
            /\ \E c \in Conns : \E k \in 1..Len(inbox[c]) :
                  inbox[c][k].message.id = row.id
            /\ \E k \in 1..Len(h) : h[k] = row

\* C7: the ids of the rows are strictly increasing in the order of the appends.
C7_IdsStrictlyIncreasing ==
    \A i \in 1..Len(messages), j \in 1..Len(messages) :
        i < j => messages[i].id < messages[j].id

\* two rows appended by two connections authenticated as different users
C7_Witness ==
    /\ Len(messages) = 2
    /\ messages[1].sender_id # messages[2].sender_id
    /\ \E c \in Conns, d \in Conns :
          /\ c # d
          /\ userId[c] = messages[1].sender_id
          /\ userId[d] = messages[2].sender_id

C9_FetchIdempotent ==
    [][response' # response =>
          /\ messages' = messages
          /\ clients' = clients
          /\ (response.status = 200 /\ response.a = response'.a
                /\ response.b = response'.b /\ response.at = Len(messages))
             => response'.rows = response.rows]_vars

\* a response of at least one row that a second fetch would repeat
C9_Witness ==
    /\ response.status = 200
    /\ response.at = Len(messages)
    /\ Len(response.rows) >= 1

\* C10: after a close no registry entry holds the closed connection, and the
\* close of a connection that never authenticated leaves the registry as it is.
C10_NoDanglingEntry ==
    [][\A c \in Conns : Closes(c) =>
          /\ \A e \in clients' : e[2] # c
          /\ userId[c] = NoUser => clients' = clients]_vars

\* C11: a successful authentication of c as u makes c the registered
\* connection of u, changes no socket's readyState (the prior holder is not
\* closed) and leaves the entries of the other users as they are.
C11_LastAuthWins ==
    [][\A c \in Conns, tok \in Tokens : (JwtVerifies(tok) /\ OnAuth(c, tok)) =>
          /\ MapGet(clients', DecodedId(tok)) = c
          /\ readyState' = readyState
          /\ {e \in clients' : e[1] # DecodedId(tok)}
               = {e \in clients : e[1] # DecodedId(tok)}]_vars

\* a connection registered for a user while an earlier one, authenticated as
\* the same user, is still open
C11_Witness ==
    \E c \in Conns, d \in Conns :
        /\ c # d
        /\ readyState[c] = "OPEN" /\ readyState[d] = "OPEN"
        /\ userId[c] \in Users /\ userId[c] = userId[d]
        /\ MapGet(clients, userId[c]) = c

\* C12: a send frame with empty content on an authenticated session appends
\* no row, pushes nothing and leaves the session open and authenticated.
C12_EmptyContentDropped ==
    [][\A c \in Conns, r \in Users : OnSend(c, r, "") =>
          /\ messages' = messages
          /\ inbox' = inbox
          /\ readyState'[c] = readyState[c]
          /\ userId'[c] = userId[c]]_vars

\* the handler of a send frame on c has reached its echo, ws.send on c itself
EchoCalled(c) == \E r \in Users, content \in Contents : OnSend(c, r, content)

\* C13: the submitting connection, its socket open, is pushed the message if
\* and only if it is the connection registered under the sender's identity.
C13_EchoIffRegistered ==
    [][\A c \in Conns : (EchoCalled(c) /\ readyState[c] = "OPEN") =>
          (GotPush(c, NewRow) <=> MapGet(clients, userId[c]) = c)]_vars

\* C13 as amended: the submitting connection is pushed the message if and
\* only if its socket is open, registered under the sender's identity or not.
C13_EchoIffOpen ==
    [][\A c \in Conns : EchoCalled(c) =>
          (GotPush(c, NewRow) <=> readyState[c] = "OPEN")]_vars

\* an open connection holds the echo of a message of its user while another
\* connection is the one registered for that user
C13_Witness ==
    \E c \in Conns : \E k \in 1..Len(inbox[c]) :
        /\ readyState[c] = "OPEN"
        /\ inbox[c][k].message.sender_id = userId[c]
        /\ inbox[c][k].message.receiver_id # userId[c]
        /\ MapGet(clients, userId[c]) \notin {c, NoConn}

\* C14: a connection that has authenticated keeps its identity, and no
\* connection is registered under two identities.
C14_OneIdentityPerConnection ==
    [][/\ \A c \in Conns : (up' /\ userId[c] # NoUser) => userId'[c] = userId[c]
       /\ \A e \in clients', f \in clients' : e[2] = f[2] => e[1] = f[1]]_vars

\* C15: a send to an identity that no user has appends no row, pushes
\* nothing and leaves the sending session open and authenticated.
C15_UnknownReceiverDropped ==
    [][\A c \in Conns, content \in Contents : OnSend(c, UnknownUser, content) =>
          /\ messages' = messages
          /\ inbox' = inbox
          /\ readyState'[c] = readyState[c]
          /\ userId'[c] = userId[c]]_vars

\* C16: the timestamp of every pushed message is the timestamp of its row.
C16_PushedTimestampIsStored ==
    \A c \in Conns : \A k \in 1..Len(inbox[c]) :
        \E i \in 1..Len(messages) :
            /\ messages[i].id = inbox[c][k].message.id
            /\ messages[i].timestamp = inbox[c][k].message.timestamp

\* the handler of an auth frame on c whose token fails verification
BadAuth(c) == \E tok \in Tokens : ~JwtVerifies(tok) /\ OnAuth(c, tok)

\* C17: an auth frame with a failing token closes the socket and leaves the
\* registry as it is, and an open socket leaves OPEN by nothing but such a
\* frame or its own close event.
C17_OnlyBadAuthCloses ==
    [][\A c \in Conns :
          /\ BadAuth(c) => (readyState'[c] # "OPEN" /\ clients' = clients)
          /\ (readyState[c] = "OPEN" /\ readyState'[c] # "OPEN") =>
                (BadAuth(c) \/ OnClose(c))]_vars

\* the handler of a frame that is no auth frame, on c
OtherFrame(c) ==
    \/ \E r \in Receivers, content \in Contents : OnSend(c, r, content)
    \/ \E type \in OtherTypes : OnIgnored(c, type)

SessionState(c) ==
    IF readyState[c] = "CLOSED" THEN "Closed"
    ELSE IF userId[c] = NoUser THEN "Unauthenticated"
    ELSE "Authenticated"

SessionSteps ==
    {<<"Unauthenticated", "Authenticated">>, <<"Authenticated", "Closed">>,
     <<"Unauthenticated", "Closed">>}

\* C19: a session moves only from Unauthenticated to Authenticated and from
\* either to Closed, and a closed session is never registered, never appends
\* and is never pushed to.
C19_SessionStateMachine ==
    [][\A c \in Conns :
          /\ SessionState(c)' # SessionState(c) =>
                <<SessionState(c), SessionState(c)'>> \in SessionSteps
          /\ readyState[c] = "CLOSED" =>
                /\ inbox'[c] = inbox[c]
                /\ \A e \in clients' \ clients : e[2] # c
                /\ ~ \E r \in Receivers, content \in Contents : OnSend(c, r, content)
                /\ ~ \E tok \in Tokens : OnAuth(c, tok)]_vars

\* a closed session that had authenticated and been pushed to, beside a live
\* session and a row appended
C19_Witness ==
    \E c \in Conns, d \in Conns :
        /\ readyState[c] = "CLOSED"
        /\ userId[c] # NoUser
        /\ inbox[c] # <<>>
        /\ readyState[d] = "OPEN"
        /\ userId[d] # NoUser
        /\ up

\* C20: no push is attempted on a socket that is not open: the handler of a
\* send frame, which ends in ws.send on its own socket, runs on open sockets
\* only, and no frame is written to a socket that is not open.
C20_NoPushUnlessOpen ==
    [][\A c \in Conns :
          /\ EchoCalled(c) => readyState[c] = "OPEN"
          /\ NewFrames(c) # {} => readyState[c] = "OPEN"]_vars

\* the frames of socket c at positions k and l are of one sender and receiver
SamePair(box, k, l) ==
    /\ box[k].message.sender_id = box[l].message.sender_id
    /\ box[k].message.receiver_id = box[l].message.receiver_id

C22_AppendFailureSurfaced ==
    [][\A c \in Conns, r \in Receivers, content \in Contents :
          (OnSend(c, r, content) /\ ~ForeignKeyOk(r)) =>
              /\ messages' = messages
              /\ \A d \in Conns : \A f \in NewFrames(d) : f.type # "message"
              /\ \E f \in NewFrames(c) : f.type # "message"]_vars

\* the number of frames of message id written to a socket
CountId(box, id) == Cardinality({k \in 1..Len(box) : box[k].message.id = id})

\* C23: a connection is pushed each persisted message at most once, a message
\* a user sends to their own identity included.
C23_AtMostOnePush ==
    \A c \in Conns : \A i \in 1..Len(messages) :
        CountId(inbox[c], messages[i].id) <= 1

\* C24: a message is pushed only to a connection whose userId, as the push is
\* made, is the sender or the receiver of the message.
C24_PushOnlyToParties ==
    [][\A c \in Conns : \A f \in NewFrames(c) :
          userId[c] \in {f.message.sender_id, f.message.receiver_id}]_vars

\* C25: userId of a connection is the id of the last token that verified on
\* it, it changes by no other frame, and the row and every frame of a send
\* carry the userId of the submitting connection as sender_id.
C25_SenderIsTokenIdentity ==
    [][/\ \A c \in Conns, tok \in Tokens :
             (OnAuth(c, tok) /\ JwtVerifies(tok)) => userId'[c] = DecodedId(tok)
       /\ \A c \in Conns :
             (up' /\ readyState[c] # "NEW" /\ userId'[c] # userId[c]) =>
                 \E tok \in Tokens : JwtVerifies(tok) /\ OnAuth(c, tok)
       /\ \A c \in Conns, r \in Users, content \in Contents :
             OnSend(c, r, content) =>
                 /\ Appended
                 /\ NewRow.sender_id = userId[c]
                 /\ \A d \in Conns : \A f \in NewFrames(d) :
                       f.message.sender_id = userId[c]]_vars

\* a row and its push to the receiver's connection carry the identity of the
\* submitting connection, which differs from the receiverId of the frame
C25_Witness ==
    \E c \in Conns, d \in Conns : \E i \in 1..Len(messages) :
        /\ c # d
        /\ messages[i].sender_id = userId[c]
        /\ messages[i].receiver_id # userId[c]
        /\ \E k \in 1..Len(inbox[c]) : SameMessage(inbox[c][k].message, messages[i])
        /\ \E k \in 1..Len(inbox[d]) : SameMessage(inbox[d][k].message, messages[i])

====
